---- MODULE Spec2Model ----
(***************************************************************************)
(* Attendance tracking and session-volume approval of BodyBack-FastAPI.    *)
(*                                                                         *)
(* The relational store is the state: the session_volumes table, the       *)
(* session_tracking table and the qr_codes table.  Every HTTP handler is   *)
(* one action (SpecSessions, Spec) or, where requests interleave, one      *)
(* action per database statement or commit of the handler (SpecConc).      *)
(***************************************************************************)
EXTENDS Integers, Sequences, FiniteSets, TLC

VARIABLES
    volumes,    \* session_volumes rows, a sequence: the row's id is its index
    events,     \* session_tracking rows, a set of records with an id field
    next_id,    \* the next fresh session_tracking id (uuid4 never repeats)
    qr_codes,   \* qr_codes rows
    resp,       \* the response of the handler that ran last
    pc,         \* per request in flight: the statement it is about to run
    loc         \* per request in flight: the handler's local variables

vars == <<volumes, events, next_id, qr_codes, resp, pc, loc>>

--------------------------------------------------------------------------
(* Bounds of the model *)

MaxVolumes == 2     \* session_volumes rows ever inserted
MaxEvents == 2      \* session_tracking rows ever inserted
MaxCount == 1       \* largest session_count a request body carries
NumDays == 2        \* days in a month
MaxNotes == 2       \* workflow notes appended to one volume

--------------------------------------------------------------------------
(* Dates: <<month, day>> *)

Months == {1, 2}

Dates == Months \X (1..NumDays)

\* session_date.replace(day=1)
replace_day1(d) == <<d[1], 1>>

None == "None"

--------------------------------------------------------------------------
(* Users: kept by the identity layer, fixed here *)

Users == {"admin", "trainer1", "trainer2", "customer1", "customer2", "customer3"}

\* User.role_name
role_name(u) ==
    CASE u = "admin" -> "Admin"
      [] u \in {"trainer1", "trainer2"} -> "Trainer"
      [] OTHER -> "Customer"

\* User.has_role
has_role(u, r) == u \in Users /\ role_name(u) = r

\* CRUDUser.is_active: customer3 has been deactivated
is_active(u) == u \in Users /\ u # "customer3"

\* get_current_active_user: the callers a handler can see
Callers == {u \in Users : is_active(u)}

\* require_trainer_or_admin
require_trainer_or_admin(u) == has_role(u, "Trainer") \/ has_role(u, "Admin")

\* require_admin
require_admin(u) == has_role(u, "Admin")

--------------------------------------------------------------------------
(* qr_codes: one permanent token per customer *)

InitQRCodes ==
    { [id |-> 1, user_id |-> "customer1", token |-> "tok1"],
      [id |-> 3, user_id |-> "customer3", token |-> "tok3"] }

Tokens == {"tok1", "tok3", "bogus"}

\* CRUDQRCode.get_by_token
get_by_token(token) == {q \in qr_codes : q.token = token}

--------------------------------------------------------------------------
(* session_volumes *)

Statuses == {"draft", "submitted", "read", "approved", "rejected"}

\* SessionVolumeCreate as get_or_create_for_period builds it: the schema's
\* defaults for plans, notes and status
PeriodVolume(trainer_id, customer_id, period) ==
    [ trainer_id |-> trainer_id, customer_id |-> customer_id,
      period |-> period, session_count |-> 0,
      plans |-> None, notes |-> <<>>, status |-> "draft",
      deleted_at |-> None ]

VolumeIds == DOMAIN volumes

\* CRUDBase.get on session_volumes: by id, deleted or not
get_volume(id) == IF id \in VolumeIds THEN {id} ELSE {}

\* the lookup of get_or_create_for_period and of create_session_volume
volumes_for_period(vols, trainer_id, customer_id, period) ==
    { i \in DOMAIN vols :
        /\ vols[i].trainer_id = trainer_id
        /\ vols[i].customer_id = customer_id
        /\ vols[i].period = period
        /\ vols[i].deleted_at = None }

\* CRUDBase.create on session_volumes
create_volume(vols, row) == Append(vols, row)

\* CRUDSessionVolume.increment_session_count, the write
increment_session_count(vols, id, read_count) ==
    IF id \in DOMAIN vols
    THEN [vols EXCEPT ![id].session_count = read_count + 1]
    ELSE vols

\* the guard off by one: a count of 1 is left alone
decrement_session_count_from_two(vols, id, read_count) ==
    IF id \in DOMAIN vols /\ read_count > 1
    THEN [vols EXCEPT ![id].session_count = read_count - 1]
    ELSE vols

\* CRUDSessionVolume.decrement_session_count, the write
decrement_session_count(vols, id, read_count) ==
    IF id \in DOMAIN vols /\ read_count > 0
    THEN [vols EXCEPT ![id].session_count = read_count - 1]
    ELSE vols

--------------------------------------------------------------------------
(* session_tracking *)

\* the duplicate check made against the month, not the day
existing_session_in_period(evs, trainer_id, qr_code_id, session_date) ==
    { e \in evs :
        /\ e.trainer_id = trainer_id
        /\ e.qr_code_id = qr_code_id
        /\ e.session_date = <<session_date[1], 1>> }

\* the duplicate check of track_session
existing_session(evs, trainer_id, qr_code_id, session_date) ==
    { e \in evs :
        /\ e.trainer_id = trainer_id
        /\ e.qr_code_id = qr_code_id
        /\ e.session_date = session_date }

\* CRUDBase.get on session_tracking
get_session(evs, id) == {e \in evs : e.id = id}

\* SessionTrackingCreate and CRUDBase.create on session_tracking
create_session(evs, id, trainer_id, qr_code_id, session_volume_id, session_date) ==
    evs \cup { [ id |-> id, trainer_id |-> trainer_id, qr_code_id |-> qr_code_id,
                 session_volume_id |-> session_volume_id,
                 session_date |-> session_date ] }

\* CRUDBase.update on session_tracking with SessionTrackingUpdate
update_session_date(evs, id, session_date) ==
    { IF e.id = id THEN [e EXCEPT !.session_date = session_date] ELSE e : e \in evs }

\* CRUDBase.remove on session_tracking: a hard delete
remove_session(evs, id) == {e \in evs : e.id # id}

EventIds == {e.id : e \in events}

--------------------------------------------------------------------------
(* Responses *)

Response(op, code, new_status, total) ==
    [op |-> op, code |-> code, new_status |-> new_status, total |-> total]

Fail(op, code) == Response(op, code, "", 0)

NoRequests == pc = [p \in DOMAIN pc |-> "idle"]

Unchanged(r) ==
    /\ resp' = r
    /\ UNCHANGED <<volumes, events, next_id, qr_codes, pc, loc>>

--------------------------------------------------------------------------
(* Request bodies *)

NullDate == <<0, 0>>

\* SessionTrackingUpdate: "set" holds the fields the body carries
\* (exclude_unset); a carried session_date may be null
SessionUpdates ==
    { [set |-> {}, session_date |-> NullDate] } \cup
    { [set |-> {"session_date"}, session_date |-> d] : d \in Dates \cup {NullDate} }

--------------------------------------------------------------------------
(* Handlers of /sessions, each run start to end with no other request in
   between *)

\* POST /sessions/track
TrackSession(caller, qr_token, session_date) ==
    /\ NoRequests
    /\ IF ~require_trainer_or_admin(caller) THEN Unchanged(Fail("track", 403))
       ELSE IF get_by_token(qr_token) = {} THEN Unchanged(Fail("track", 404))
       ELSE \E q \in get_by_token(qr_token) :
         IF ~is_active(q.user_id) THEN Unchanged(Fail("track", 400))
         ELSE IF existing_session(events, caller, q.id, session_date) # {}
         THEN Unchanged(Fail("track", 409))
         ELSE
           LET period == replace_day1(session_date)
               found == volumes_for_period(volumes, caller, q.user_id, period)
           IN  /\ next_id <= MaxEvents
               /\ found = {} => Len(volumes) < MaxVolumes
               /\ \E v \in (IF found = {} THEN {Len(volumes) + 1} ELSE found) :
                    LET vols1 == IF found = {}
                                 THEN create_volume(volumes,
                                        PeriodVolume(caller, q.user_id, period))
                                 ELSE volumes
                        evs1 == create_session(events, next_id, caller, q.id, v,
                                               session_date)
                        vols2 == increment_session_count(vols1, v,
                                                         vols1[v].session_count)
                    IN  /\ volumes' = vols2
                        /\ events' = evs1
                        /\ next_id' = next_id + 1
                        /\ resp' = Response("track", 200, "",
                                            vols2[v].session_count + 1)
                        /\ UNCHANGED <<qr_codes, pc, loc>>

\* PUT /sessions/{session_id}
UpdateSession(caller, session_id, upd) ==
    /\ NoRequests
    /\ IF ~require_admin(caller) THEN Unchanged(Fail("update_session", 403))
       ELSE IF get_session(events, session_id) = {}
       THEN Unchanged(Fail("update_session", 404))
       ELSE IF "session_date" \notin upd.set
       THEN Unchanged(Response("update_session", 200, "", 0))
       ELSE IF upd.session_date = NullDate      \* NOT NULL column
       THEN Unchanged(Fail("update_session", 500))
       ELSE /\ events' = update_session_date(events, session_id, upd.session_date)
            /\ resp' = Response("update_session", 200, "", 0)
            /\ UNCHANGED <<volumes, next_id, qr_codes, pc, loc>>

\* DELETE /sessions/{session_id}
DeleteSession(caller, session_id) ==
    /\ NoRequests
    /\ IF ~require_admin(caller) THEN Unchanged(Fail("delete_session", 403))
       ELSE IF get_session(events, session_id) = {}
       THEN Unchanged(Fail("delete_session", 404))
       ELSE \E e \in get_session(events, session_id) :
            /\ volumes' = decrement_session_count(volumes, e.session_volume_id,
                              volumes[e.session_volume_id].session_count)
            /\ events' = remove_session(events, session_id)
            /\ resp' = Response("delete_session", 200, "", 0)
            /\ UNCHANGED <<next_id, qr_codes, pc, loc>>

--------------------------------------------------------------------------
(* The store before any request, with the users' QR codes issued *)

Procs == {1, 2}

Init ==
    /\ volumes = <<>>
    /\ events = {}
    /\ next_id = 1
    /\ qr_codes = InitQRCodes
    /\ resp = Fail("none", 0)
    /\ pc = [p \in Procs |-> "idle"]
    /\ loc = [p \in Procs |-> <<>>]

SessionIds == 1..MaxEvents

\* The callers of the /sessions requests: an admin, a trainer, a customer
SessionsCallers == {"admin", "trainer1", "customer1"}

\* Requests to /sessions, one after another
NextSessions ==
    \/ \E c \in SessionsCallers, t \in Tokens, d \in Dates : TrackSession(c, t, d)
    \/ \E c \in SessionsCallers, id \in SessionIds, u \in SessionUpdates :
          UpdateSession(c, id, u)
    \/ \E c \in SessionsCallers, id \in SessionIds : DeleteSession(c, id)

SpecSessions == Init /\ [][NextSessions]_vars

\* Scans recorded and removed, one request after another
NextRecord ==
    \/ \E c \in SessionsCallers, t \in Tokens, d \in Dates : TrackSession(c, t, d)
    \/ \E c \in SessionsCallers, id \in SessionIds : DeleteSession(c, id)

SpecRecord == Init /\ [][NextRecord]_vars

--------------------------------------------------------------------------
(* The workflow methods of the SessionVolume model, on the status *)

\* submit that skips the customer's review
submit_as_read(status) == IF status = "draft" THEN "read" ELSE status

\* SessionVolume.submit
submit(status) == IF status = "draft" THEN "submitted" ELSE status

\* SessionVolume.mark_as_read
mark_as_read(status) == IF status = "submitted" THEN "read" ELSE status

\* approve that forgets the read status
approve_submitted_only(status) == IF status = "submitted" THEN "approved" ELSE status

\* SessionVolume.approve
approve(status) == IF status \in {"submitted", "read"} THEN "approved" ELSE status

\* SessionVolume.reject
reject(status) == IF status \in {"submitted", "read"} THEN "rejected" ELSE status

\* reopen that hands the volume straight back to the customer
reopen_as_submitted(status) == IF status = "rejected" THEN "submitted" ELSE status

\* SessionVolume.reopen
reopen(status) == IF status = "rejected" THEN "draft" ELSE status

\* the statuses the loaded volume takes in approve_session_volume, in order
approve_path(status) ==
    LET s1 == IF status = "submitted" THEN mark_as_read(status) ELSE status
    IN  <<status, s1, approve(s1)>>

\* the statuses the loaded volume takes in reject_session_volume, in order
reject_path(status) ==
    LET s1 == IF status = "submitted" THEN mark_as_read(status) ELSE status
    IN  <<status, s1, reject(s1)>>

\* a note that replaces what was written before
overwrite_note(notes, header, text) == << <<header, text>> >>

\* notes are kept as the sequence of <<header, text>> pieces they are
\* concatenated from; NULL and the empty string are both the empty sequence
\* (volume.notes or "")
append_note(notes, header, text) == Append(notes, <<header, text>>)

\* a check that lets every trainer act on every volume
is_admin_or_any_trainer(caller, row) ==
    has_role(caller, "Admin") \/ has_role(caller, "Trainer")

\* the permission checks of the /session-volumes handlers
is_admin_or_trainer_of(caller, row) ==
    has_role(caller, "Admin") \/ caller = row.trainer_id

is_admin_or_customer_of(caller, row) ==
    has_role(caller, "Admin") \/ caller = row.customer_id

\* CRUDBase.update with SessionVolumeUpdate: every carried field is set
apply_update(row, upd) ==
    [ row EXCEPT
        !.period = IF "period" \in upd.set THEN upd.period ELSE @,
        !.session_count = IF "session_count" \in upd.set THEN upd.session_count ELSE @,
        !.plans = IF "plans" \in upd.set THEN upd.plans ELSE @,
        !.notes = IF "notes" \in upd.set THEN upd.notes ELSE @,
        !.status = IF "status" \in upd.set THEN upd.status ELSE @ ]

\* the columns declared nullable=False that a body may carry
NotNullColumns == {"period", "session_count", "status"}

\* CRUDBase.create with SessionVolumeCreate
volume_row(body) ==
    [ trainer_id |-> body.trainer_id, customer_id |-> body.customer_id,
      period |-> body.period, session_count |-> body.session_count,
      plans |-> body.plans, notes |-> body.notes, status |-> body.status,
      deleted_at |-> None ]

--------------------------------------------------------------------------
(* Handlers of /session-volumes, each run start to end with no other request
   in between *)

\* POST /session-volumes
CreateVolume(caller, body) ==
    /\ NoRequests
    /\ IF ~require_trainer_or_admin(caller) THEN Unchanged(Fail("create", 403))
       ELSE IF body.session_count < 0 THEN Unchanged(Fail("create", 422))
       ELSE
         LET data == IF has_role(caller, "Trainer") /\ ~has_role(caller, "Admin")
                     THEN [body EXCEPT !.trainer_id = caller] ELSE body
         IN  IF ~is_active(data.trainer_id) \/ ~has_role(data.trainer_id, "Trainer")
             THEN Unchanged(Fail("create", 400))
             ELSE IF ~is_active(data.customer_id)
                     \/ ~has_role(data.customer_id, "Customer")
             THEN Unchanged(Fail("create", 400))
             ELSE IF volumes_for_period(volumes, data.trainer_id, data.customer_id,
                                        data.period) # {}
             THEN Unchanged(Fail("create", 409))
             ELSE /\ Len(volumes) < MaxVolumes
                  /\ volumes' = create_volume(volumes, volume_row(data))
                  /\ resp' = Response("create", 200, data.status, 0)
                  /\ UNCHANGED <<events, next_id, qr_codes, pc, loc>>

\* an edit that is refused on submitted and approved volumes only
UpdateVolumeWhileRead(caller, id, upd) ==
    /\ NoRequests
    /\ IF "session_count" \in upd.set \ upd.nulls /\ upd.session_count < 0
       THEN Unchanged(Fail("update", 422))
       ELSE IF get_volume(id) = {} THEN Unchanged(Fail("update", 404))
       ELSE IF ~is_admin_or_trainer_of(caller, volumes[id])
       THEN Unchanged(Fail("update", 403))
       ELSE IF volumes[id].status \in {"submitted", "approved"}
       THEN Unchanged(Fail("update", 400))
       ELSE IF upd.nulls \cap NotNullColumns # {}
       THEN Unchanged(Fail("update", 500))
       ELSE /\ volumes' = [volumes EXCEPT ![id] = apply_update(@, upd)]
            /\ resp' = Response("update", 200, volumes'[id].status, 0)
            /\ UNCHANGED <<events, next_id, qr_codes, pc, loc>>

\* PUT /session-volumes/{volume_id}
UpdateVolume(caller, id, upd) ==
    /\ NoRequests
    /\ IF "session_count" \in upd.set \ upd.nulls /\ upd.session_count < 0
       THEN Unchanged(Fail("update", 422))
       ELSE IF get_volume(id) = {} THEN Unchanged(Fail("update", 404))
       ELSE IF ~is_admin_or_trainer_of(caller, volumes[id])
       THEN Unchanged(Fail("update", 403))
       ELSE IF volumes[id].status \in {"submitted", "read", "approved"}
       THEN Unchanged(Fail("update", 400))
       ELSE IF upd.nulls \cap NotNullColumns # {}
       THEN Unchanged(Fail("update", 500))
       ELSE /\ volumes' = [volumes EXCEPT ![id] = apply_update(@, upd)]
            /\ resp' = Response("update", 200, volumes'[id].status, 0)
            /\ UNCHANGED <<events, next_id, qr_codes, pc, loc>>

\* a soft delete that is allowed on drafts only
DeleteVolumeDraftOnly(caller, id) ==
    /\ NoRequests
    /\ IF ~require_admin(caller) THEN Unchanged(Fail("delete", 403))
       ELSE IF get_volume(id) = {} THEN Unchanged(Fail("delete", 404))
       ELSE IF volumes[id].status # "draft" THEN Unchanged(Fail("delete", 400))
       ELSE /\ volumes' = [volumes EXCEPT ![id].deleted_at = "now"]
            /\ resp' = Response("delete", 200, "", 0)
            /\ UNCHANGED <<events, next_id, qr_codes, pc, loc>>

\* a soft delete that does not look at the status
DeleteVolumeAnyStatus(caller, id) ==
    /\ NoRequests
    /\ IF ~require_admin(caller) THEN Unchanged(Fail("delete", 403))
       ELSE IF get_volume(id) = {} THEN Unchanged(Fail("delete", 404))
       ELSE /\ volumes' = [volumes EXCEPT ![id].deleted_at = "now"]
            /\ resp' = Response("delete", 200, "", 0)
            /\ UNCHANGED <<events, next_id, qr_codes, pc, loc>>

\* DELETE /session-volumes/{volume_id}
DeleteVolume(caller, id) ==
    /\ NoRequests
    /\ IF ~require_admin(caller) THEN Unchanged(Fail("delete", 403))
       ELSE IF get_volume(id) = {} THEN Unchanged(Fail("delete", 404))
       ELSE IF volumes[id].status = "approved" THEN Unchanged(Fail("delete", 400))
       ELSE /\ volumes' = [volumes EXCEPT ![id].deleted_at = "now"]
            /\ resp' = Response("delete", 200, "", 0)
            /\ UNCHANGED <<events, next_id, qr_codes, pc, loc>>

\* POST /session-volumes/{volume_id}/submit
SubmitVolume(caller, id) ==
    /\ NoRequests
    /\ IF get_volume(id) = {} THEN Unchanged(Fail("submit", 404))
       ELSE IF ~is_admin_or_trainer_of(caller, volumes[id])
       THEN Unchanged(Fail("submit", 403))
       ELSE IF volumes[id].status # "draft" THEN Unchanged(Fail("submit", 400))
       ELSE /\ volumes' = [volumes EXCEPT ![id].status = submit(@)]
            /\ resp' = Response("submit", 200, volumes'[id].status, 0)
            /\ UNCHANGED <<events, next_id, qr_codes, pc, loc>>

\* POST /session-volumes/{volume_id}/approve; note is "" when the body, or
\* its notes, is absent or empty
ApproveVolume(caller, id, note) ==
    /\ NoRequests
    /\ IF get_volume(id) = {} THEN Unchanged(Fail("approve", 404))
       ELSE IF ~is_admin_or_customer_of(caller, volumes[id])
       THEN Unchanged(Fail("approve", 403))
       ELSE IF volumes[id].status \notin {"submitted", "read"}
       THEN Unchanged(Fail("approve", 400))
       ELSE /\ note # "" => Len(volumes[id].notes) < MaxNotes
            /\ volumes' = [volumes EXCEPT
                 ![id].status = approve_path(@)[3],
                 ![id].notes = IF note # ""
                               THEN append_note(@, "Customer Approval", note)
                               ELSE @ ]
            /\ resp' = Response("approve", 200, volumes'[id].status, 0)
            /\ UNCHANGED <<events, next_id, qr_codes, pc, loc>>

\* POST /session-volumes/{volume_id}/reject
RejectVolume(caller, id, note) ==
    /\ NoRequests
    /\ IF get_volume(id) = {} THEN Unchanged(Fail("reject", 404))
       ELSE IF ~is_admin_or_customer_of(caller, volumes[id])
       THEN Unchanged(Fail("reject", 403))
       ELSE IF volumes[id].status \notin {"submitted", "read"}
       THEN Unchanged(Fail("reject", 400))
       ELSE IF note = "" THEN Unchanged(Fail("reject", 400))
       ELSE /\ Len(volumes[id].notes) < MaxNotes
            /\ volumes' = [volumes EXCEPT
                 ![id].status = reject_path(@)[3],
                 ![id].notes = append_note(@, "Customer Rejection", note) ]
            /\ resp' = Response("reject", 200, volumes'[id].status, 0)
            /\ UNCHANGED <<events, next_id, qr_codes, pc, loc>>

\* POST /session-volumes/{volume_id}/reopen
ReopenVolume(caller, id) ==
    /\ NoRequests
    /\ IF get_volume(id) = {} THEN Unchanged(Fail("reopen", 404))
       ELSE IF ~is_admin_or_trainer_of(caller, volumes[id])
       THEN Unchanged(Fail("reopen", 403))
       ELSE IF volumes[id].status # "rejected" THEN Unchanged(Fail("reopen", 400))
       ELSE /\ Len(volumes[id].notes) < MaxNotes
            /\ volumes' = [volumes EXCEPT
                 ![id].status = reopen(@),
                 ![id].notes = append_note(@, "Volume Reopened",
                                           "Volume reopened for revision.") ]
            /\ resp' = Response("reopen", 200, volumes'[id].status, 0)
            /\ UNCHANGED <<events, next_id, qr_codes, pc, loc>>

--------------------------------------------------------------------------
(* The approval workflow of one volume: requests to /session-volumes, one
   after another.  The handlers read and write the addressed row only, so
   the workflow is followed on the first volume created. *)

WorkflowVolumes == {1}

\* the ids requests address: the volume, and an id no volume has
TargetIds == WorkflowVolumes \cup {2}

CreateBody(trainer_id, customer_id, period, session_count, status) ==
    [ trainer_id |-> trainer_id, customer_id |-> customer_id, period |-> period,
      session_count |-> session_count, plans |-> None, notes |-> <<>>,
      status |-> status ]

\* SessionVolumeCreate bodies: any status of the schema's Literal, a user
\* who is no trainer, a deactivated customer, a negative count
WorkflowCreates ==
    { CreateBody("trainer1", "customer1", <<1, 1>>, 0, s) : s \in Statuses } \cup
    { CreateBody("customer1", "customer1", <<1, 1>>, 0, "draft"),
      CreateBody("trainer1", "customer3", <<1, 1>>, 0, "draft"),
      CreateBody("trainer1", "customer1", <<1, 1>>, -1, "draft") }

UpdateBody(set, nulls, period, session_count, plans, notes, status) ==
    [ set |-> set, nulls |-> nulls, period |-> period,
      session_count |-> session_count, plans |-> plans, notes |-> notes,
      status |-> status ]

\* SessionVolumeUpdate bodies that carry nothing, plans, notes, a status, or
\* a null status
WorkflowUpdates ==
    { UpdateBody({}, {}, NullDate, 0, None, <<>>, None),
      UpdateBody({"plans"}, {}, NullDate, 0, "plan", <<>>, None),
      UpdateBody({"notes"}, {}, NullDate, 0, None, << <<"", "note">> >>, None),
      UpdateBody({"status"}, {"status"}, NullDate, 0, None, <<>>, None) } \cup
    { UpdateBody({"status"}, {}, NullDate, 0, None, <<>>, s) : s \in Statuses }

ApprovalNotes == {"", "fine"}

RejectionNotes == {"", "needs adjustment"}

Next ==
    \/ \E c \in Callers, b \in WorkflowCreates :
          /\ Len(volumes) + 1 \in WorkflowVolumes
          /\ CreateVolume(c, b)
    \/ \E c \in Callers, id \in TargetIds, u \in WorkflowUpdates : UpdateVolume(c, id, u)
    \/ \E c \in Callers, id \in TargetIds : DeleteVolume(c, id)
    \/ \E c \in Callers, id \in TargetIds : SubmitVolume(c, id)
    \/ \E c \in Callers, id \in TargetIds, n \in ApprovalNotes : ApproveVolume(c, id, n)
    \/ \E c \in Callers, id \in TargetIds, n \in RejectionNotes : RejectVolume(c, id, n)
    \/ \E c \in Callers, id \in TargetIds : ReopenVolume(c, id)

Spec == Init /\ [][Next]_vars

--------------------------------------------------------------------------
(* Volumes kept by scans, explicit creation, edits of period and count, and
   soft deletion: requests run one after another *)

\* SessionVolumeCreate bodies of a trainer for a customer: any date as the
\* period, a count
VolumesCreates ==
    { CreateBody("trainer1", "customer1", p, n, "draft") :
        p \in Dates, n \in {0, MaxCount} }

\* SessionVolumeUpdate bodies that carry a period or a session_count
VolumesUpdates ==
    { UpdateBody({"period"}, {}, p, 0, None, <<>>, None) : p \in Dates } \cup
    { UpdateBody({"session_count"}, {}, NullDate, n, None, <<>>, None) :
        n \in {-1, MaxCount} }

AllVolumeIds == 1..MaxVolumes

\* a trainer scans, creates and edits; a customer may not edit; the admin
\* deletes
NextVolumes ==
    \/ \E d \in Dates : TrackSession("trainer1", "tok1", d)
    \/ \E id \in SessionIds : DeleteSession("admin", id)
    \/ \E b \in VolumesCreates : CreateVolume("trainer1", b)
    \/ \E c \in {"trainer1", "customer1"}, id \in AllVolumeIds, u \in VolumesUpdates :
          UpdateVolume(c, id, u)
    \/ \E c \in {"admin", "trainer1"}, id \in AllVolumeIds : DeleteVolume(c, id)

SpecVolumes == Init /\ [][NextVolumes]_vars

--------------------------------------------------------------------------
(* Requests that interleave: each request has its own database session, and
   another request may commit between any two statements of a handler *)

NoLocals ==
    [ caller |-> "", qr_code_id |-> 0, customer_id |-> "", session_date |-> NullDate,
      volume_id |-> 0, session_id |-> 0, count |-> 0, expired |-> FALSE ]

Goto(p, label, locals) ==
    /\ pc' = [pc EXCEPT ![p] = label]
    /\ loc' = [loc EXCEPT ![p] = locals]

Finish(p, r) ==
    /\ resp' = r
    /\ Goto(p, "idle", NoLocals)

\* track_session up to the duplicate check
TrackBegin(p, caller, qr_token, session_date) ==
    /\ pc[p] = "idle"
    /\ UNCHANGED <<volumes, events, next_id, qr_codes>>
    /\ IF ~require_trainer_or_admin(caller) THEN Finish(p, Fail("track", 403))
       ELSE IF get_by_token(qr_token) = {} THEN Finish(p, Fail("track", 404))
       ELSE \E q \in get_by_token(qr_token) :
         IF ~is_active(q.user_id) THEN Finish(p, Fail("track", 400))
         ELSE IF existing_session(events, caller, q.id, session_date) # {}
         THEN Finish(p, Fail("track", 409))
         ELSE /\ Goto(p, "track_lookup",
                      [NoLocals EXCEPT !.caller = caller, !.qr_code_id = q.id,
                                       !.customer_id = q.user_id,
                                       !.session_date = session_date])
              /\ UNCHANGED resp

\* get_or_create_for_period, the lookup
TrackLookup(p) ==
    /\ pc[p] = "track_lookup"
    /\ UNCHANGED <<volumes, events, next_id, qr_codes, resp>>
    /\ LET found == volumes_for_period(volumes, loc[p].caller, loc[p].customer_id,
                                       replace_day1(loc[p].session_date))
       IN  IF found = {}
           THEN Goto(p, "track_create_volume", loc[p])
           ELSE \E v \in found :
                  Goto(p, "track_create_session", [loc[p] EXCEPT !.volume_id = v])

\* get_or_create_for_period, the insert and its commit
TrackCreateVolume(p) ==
    /\ pc[p] = "track_create_volume"
    /\ Len(volumes) < MaxVolumes
    /\ volumes' = create_volume(volumes,
                    PeriodVolume(loc[p].caller, loc[p].customer_id,
                                 replace_day1(loc[p].session_date)))
    /\ Goto(p, "track_create_session", [loc[p] EXCEPT !.volume_id = Len(volumes')])
    /\ UNCHANGED <<events, next_id, qr_codes, resp>>

\* session_tracking_crud.create and its commit
TrackCreateSession(p) ==
    /\ pc[p] = "track_create_session"
    /\ next_id <= MaxEvents
    /\ events' = create_session(events, next_id, loc[p].caller, loc[p].qr_code_id,
                                loc[p].volume_id, loc[p].session_date)
    /\ next_id' = next_id + 1
    /\ Goto(p, "track_read_count", [loc[p] EXCEPT !.session_id = next_id])
    /\ UNCHANGED <<volumes, qr_codes, resp>>

\* increment_session_count, the load of the volume
TrackReadCount(p) ==
    /\ pc[p] = "track_read_count"
    /\ Goto(p, "track_write_count",
            [loc[p] EXCEPT !.count = volumes[loc[p].volume_id].session_count])
    /\ UNCHANGED <<volumes, events, next_id, qr_codes, resp>>

\* increment_session_count, the UPDATE, its commit and the refresh; the
\* response
TrackWriteCount(p) ==
    /\ pc[p] = "track_write_count"
    /\ volumes' = increment_session_count(volumes, loc[p].volume_id, loc[p].count)
    /\ Finish(p, Response("track", 200, "",
                          volumes'[loc[p].volume_id].session_count + 1))
    /\ UNCHANGED <<events, next_id, qr_codes>>

\* delete_session up to the load of the session
DeleteBegin(p, caller, session_id) ==
    /\ pc[p] = "idle"
    /\ UNCHANGED <<volumes, events, next_id, qr_codes>>
    /\ IF ~require_admin(caller) THEN Finish(p, Fail("delete_session", 403))
       ELSE IF get_session(events, session_id) = {}
       THEN Finish(p, Fail("delete_session", 404))
       ELSE \E e \in get_session(events, session_id) :
              /\ Goto(p, "delete_read_count",
                      [NoLocals EXCEPT !.caller = caller, !.session_id = session_id,
                                       !.volume_id = e.session_volume_id])
              /\ UNCHANGED resp

\* decrement_session_count, the load of the volume
DeleteReadCount(p) ==
    /\ pc[p] = "delete_read_count"
    /\ LET n == volumes[loc[p].volume_id].session_count
       IN  Goto(p, IF n > 0 THEN "delete_write_count" ELSE "delete_remove",
                [loc[p] EXCEPT !.count = n])
    /\ UNCHANGED <<volumes, events, next_id, qr_codes, resp>>

\* decrement_session_count, the UPDATE and its commit, which expires the
\* loaded session
DeleteWriteCount(p) ==
    /\ pc[p] = "delete_write_count"
    /\ volumes' = decrement_session_count(volumes, loc[p].volume_id, loc[p].count)
    /\ Goto(p, "delete_remove", [loc[p] EXCEPT !.expired = TRUE])
    /\ UNCHANGED <<events, next_id, qr_codes, resp>>

\* session_tracking_crud.remove: Query.get reloads an expired row and gives
\* None when it is gone, and db.delete(None) raises; a row still cached is
\* deleted again, which matches no row
DeleteRemove(p) ==
    /\ pc[p] = "delete_remove"
    /\ UNCHANGED <<volumes, next_id, qr_codes>>
    /\ IF get_session(events, loc[p].session_id) = {} /\ loc[p].expired
       THEN /\ Finish(p, Fail("delete_session", 500))
            /\ UNCHANGED events
       ELSE /\ events' = remove_session(events, loc[p].session_id)
            /\ Finish(p, Response("delete_session", 200, "", 0))

ConcTrainers == {"trainer1"}

ConcTokens == {"tok1"}

NextConc ==
    \/ \E p \in Procs, c \in ConcTrainers, t \in ConcTokens, d \in Dates :
          TrackBegin(p, c, t, d)
    \/ \E p \in Procs : TrackLookup(p)
    \/ \E p \in Procs : TrackCreateVolume(p)
    \/ \E p \in Procs : TrackCreateSession(p)
    \/ \E p \in Procs : TrackReadCount(p)
    \/ \E p \in Procs : TrackWriteCount(p)
    \/ \E p \in Procs, id \in SessionIds : DeleteBegin(p, "admin", id)
    \/ \E p \in Procs : DeleteReadCount(p)
    \/ \E p \in Procs : DeleteWriteCount(p)
    \/ \E p \in Procs : DeleteRemove(p)

InitConc ==
    /\ volumes = <<>>
    /\ events = {}
    /\ next_id = 1
    /\ qr_codes = InitQRCodes
    /\ resp = Fail("none", 0)
    /\ pc = [p \in Procs |-> "idle"]
    /\ loc = [p \in Procs |-> NoLocals]

SpecConc == InitConc /\ [][NextConc]_vars

--------------------------------------------------------------------------
(* Claims about /sessions requests run one after another *)

\* the session_tracking rows of one volume
SessionsOf(evs, volume_id) == {e \in evs : e.session_volume_id = volume_id}

\* the session_tracking rows of one (trainer, QR code, date)
SameDay(evs, trainer_id, qr_code_id, session_date) ==
    { e \in evs : e.trainer_id = trainer_id /\ e.qr_code_id = qr_code_id
                  /\ e.session_date = session_date }

\* C1: in every state reached by track, date correction and delete requests
\* run one after another, no two session_tracking rows share
\* (trainer_id, qr_code_id, session_date).
C1_DailyDedup ==
    \A e1 \in events, e2 \in events :
        (/\ e1.trainer_id = e2.trainer_id
         /\ e1.qr_code_id = e2.qr_code_id
         /\ e1.session_date = e2.session_date) => e1 = e2

\* C2: a track request for a (trainer, QR code, date) that already has a row
\* answers 409 and writes nothing: the rows of the triple, every volume's
\* session_count and the set of volumes are as before.
C2_DuplicateScanConflict ==
    [][ resp'.op = "track" =>
        \A c \in SessionsCallers, q \in qr_codes, d \in Dates :
          ( /\ SameDay(events, c, q.id, d) # {}
            /\ TrackSession(c, q.token, d) )
          => /\ resp'.code = 409
             /\ events' = events
             /\ volumes' = volumes
             /\ Cardinality(SameDay(events, c, q.id, d)) = 1
                  => Cardinality(SameDay(events', c, q.id, d)) = 1
      ]_vars

C2_Witness ==
    /\ resp.op = "track" /\ resp.code = 409
    /\ \E e \in events : Cardinality(SameDay(events, e.trainer_id, e.qr_code_id,
                                             e.session_date)) = 1

\* C25: the total a successful track request reports is the session_count
\* stored on the volume of the new session after the scan was counted.
C25_ReportedTotalIsStoredCount ==
    [][ (resp'.op = "track" /\ resp'.code = 200) =>
        \A e \in events' \ events :
            resp'.total = volumes'[e.session_volume_id].session_count
      ]_vars

\* C5: a track request that succeeds leaves the session_count of its volume
\* at N, the number of sessions recorded for it (1 for the scan that created
\* the volume); a delete request that succeeds leaves it at N-1, the number
\* of sessions that remain.
C5_CountAfterRecordAndRemove ==
    [][ /\ (resp'.op = "track" /\ resp'.code = 200) =>
             \A e \in events' \ events :
                /\ e.session_volume_id \in DOMAIN volumes'
                /\ volumes'[e.session_volume_id].session_count
                     = Cardinality(SessionsOf(events, e.session_volume_id)) + 1
        /\ (resp'.op = "delete_session" /\ resp'.code = 200) =>
             \A e \in events \ events' :
                volumes'[e.session_volume_id].session_count
                   = Cardinality(SessionsOf(events, e.session_volume_id)) - 1
      ]_vars

C5_Witness ==
    /\ resp.op = "delete_session" /\ resp.code = 200
    /\ \E i \in DOMAIN volumes :
         /\ volumes[i].session_count = 1
         /\ Cardinality(SessionsOf(events, i)) = 1
         /\ next_id = 3

--------------------------------------------------------------------------
(* Claims about the approval workflow *)

\* the edges of the workflow: submit, mark as read, approve, reject, reopen
WorkflowEdges ==
    { <<"draft", "submitted">>, <<"submitted", "read">>,
      <<"submitted", "approved">>, <<"read", "approved">>,
      <<"submitted", "rejected">>, <<"read", "rejected">>,
      <<"rejected", "draft">> }

\* C8: between two consecutive states the status of a volume is unchanged or
\* moves along an edge of the workflow, whatever request ran.
C8_StatusFollowsWorkflow ==
    [][ \A i \in DOMAIN volumes :
          \/ volumes'[i].status = volumes[i].status
          \/ <<volumes[i].status, volumes'[i].status>> \in WorkflowEdges
      ]_vars

\* C9: submit by an admin or by the volume's trainer answers 200 and sets
\* the status to submitted when the status is draft; from any other status
\* it answers 400 and leaves every volume as it was.
C9_SubmitOnlyFromDraft ==
    [][ resp'.op = "submit" =>
        \A c \in Callers, id \in DOMAIN volumes :
          ( /\ c = "admin" \/ c = volumes[id].trainer_id
            /\ SubmitVolume(c, id) )
          => IF volumes[id].status = "draft"
             THEN /\ resp'.code = 200
                  /\ volumes'[id].status = "submitted"
             ELSE /\ resp'.code = 400
                  /\ volumes' = volumes
      ]_vars

C9_Witness ==
    /\ resp.op = "submit" /\ resp.code = 200
    /\ \E i \in DOMAIN volumes : volumes[i].status = "submitted"

\* C10: approve by an admin or by the volume's customer, on a submitted
\* volume, takes the loaded volume through read to approved and stores
\* approved; on a read volume it stores approved; on a draft, approved or
\* rejected volume it answers 400 and leaves every volume as it was.
C10_ApproveThroughRead ==
    [][ resp'.op = "approve" =>
        \A c \in Callers, id \in DOMAIN volumes, n \in ApprovalNotes :
          ( /\ c = "admin" \/ c = volumes[id].customer_id
            /\ ApproveVolume(c, id, n) )
          => CASE volumes[id].status = "submitted" ->
                    /\ approve_path("submitted") = <<"submitted", "read", "approved">>
                    /\ resp'.code = 200
                    /\ volumes'[id].status = "approved"
               [] volumes[id].status = "read" ->
                    /\ resp'.code = 200
                    /\ volumes'[id].status = "approved"
               [] OTHER ->
                    /\ resp'.code = 400
                    /\ volumes' = volumes
      ]_vars

C10_Witness ==
    /\ resp.op = "approve" /\ resp.code = 200 /\ resp.new_status = "approved"
    /\ \E i \in DOMAIN volumes : volumes[i].status = "approved"

--------------------------------------------------------------------------
(* Claims about the volumes and their counts *)

\* C4: in every reachable state the session_count of every volume is the
\* number of session_tracking rows that reference the volume.
C4_CountIsNumberOfSessions ==
    \A i \in DOMAIN volumes :
        volumes[i].session_count = Cardinality(SessionsOf(events, i))

\* C6: in every state reached by track, create, edit and soft-delete
\* requests run one after another, no two volumes that are not deleted
\* share (trainer_id, customer_id, period).
C6_OneVolumePerPeriod ==
    \A i \in DOMAIN volumes, j \in DOMAIN volumes :
        ( /\ volumes[i].deleted_at = None /\ volumes[j].deleted_at = None
          /\ volumes[i].trainer_id = volumes[j].trainer_id
          /\ volumes[i].customer_id = volumes[j].customer_id
          /\ volumes[i].period = volumes[j].period ) => i = j

\* C19: in every reachable state the period of every volume is the first
\* day of its month.
C19_PeriodIsFirstOfMonth ==
    \A i \in DOMAIN volumes : volumes[i].period = replace_day1(volumes[i].period)

--------------------------------------------------------------------------
(* Claims about requests that interleave *)

\* C3: track requests for one (trainer, QR code, date) whose statements
\* interleave never leave two session_tracking rows for that key.
C3_NoDuplicateUnderConcurrency ==
    \A c \in ConcTrainers, q \in qr_codes, d \in Dates :
        Cardinality(SameDay(events, c, q.id, d)) <= 1

\* a track request that holds the volume get_or_create_for_period returned
Resolved(p) ==
    pc[p] \in {"track_create_session", "track_read_count", "track_write_count"}

\* C7: two get_or_create_for_period calls for one (trainer, customer, period)
\* hold the same volume id, and that key has exactly one volume row.
C7_GetOrCreateIdempotent ==
    \A p \in Procs, q \in Procs :
        ( /\ Resolved(p) /\ Resolved(q)
          /\ loc[p].caller = loc[q].caller
          /\ loc[p].customer_id = loc[q].customer_id
          /\ replace_day1(loc[p].session_date) = replace_day1(loc[q].session_date) )
        => /\ loc[p].volume_id = loc[q].volume_id
           /\ Cardinality({ i \in DOMAIN volumes :
                  /\ volumes[i].trainer_id = loc[p].caller
                  /\ volumes[i].customer_id = loc[p].customer_id
                  /\ volumes[i].period = replace_day1(loc[p].session_date) }) = 1

\* C11: reject by an admin or by the volume's customer, on a submitted or
\* read volume: with an empty or absent reason it answers 400 and leaves
\* every volume as it was; with a reason it stores rejected, and the notes
\* are the earlier notes followed by the reason under its header.
C11_RejectNeedsReason ==
    [][ resp'.op = "reject" =>
        \A c \in Callers, id \in DOMAIN volumes, n \in RejectionNotes :
          ( /\ c = "admin" \/ c = volumes[id].customer_id
            /\ volumes[id].status \in {"submitted", "read"}
            /\ RejectVolume(c, id, n) )
          => IF n = ""
             THEN /\ resp'.code = 400
                  /\ volumes' = volumes
             ELSE /\ resp'.code = 200
                  /\ volumes'[id].status = "rejected"
                  /\ Len(volumes'[id].notes) = Len(volumes[id].notes) + 1
                  /\ SubSeq(volumes'[id].notes, 1, Len(volumes[id].notes))
                       = volumes[id].notes
                  /\ volumes'[id].notes[Len(volumes'[id].notes)]
                       = <<"Customer Rejection", n>>
      ]_vars

C11_Witness ==
    /\ resp.op = "reject" /\ resp.code = 200 /\ resp.new_status = "rejected"
    /\ \E i \in DOMAIN volumes :
          /\ volumes[i].status = "rejected"
          /\ Len(volumes[i].notes) = 2
          /\ volumes[i].notes[2] = <<"Customer Rejection", "needs adjustment">>

\* C12: reopen by an admin or by the volume's trainer answers 200 and sets
\* the status to draft when the status is rejected; from draft, submitted,
\* read or approved it answers 400 and leaves every volume as it was.
C12_ReopenOnlyFromRejected ==
    [][ resp'.op = "reopen" =>
        \A c \in Callers, id \in DOMAIN volumes :
          ( /\ c = "admin" \/ c = volumes[id].trainer_id
            /\ ReopenVolume(c, id) )
          => IF volumes[id].status = "rejected"
             THEN /\ resp'.code = 200
                  /\ volumes'[id].status = "draft"
             ELSE /\ resp'.code = 400
                  /\ volumes' = volumes
      ]_vars

C12_Witness ==
    /\ resp.op = "reopen" /\ resp.code = 200 /\ resp.new_status = "draft"
    /\ \E i \in DOMAIN volumes :
          /\ volumes[i].status = "draft"
          /\ volumes[i].notes[Len(volumes[i].notes)][1] = "Volume Reopened"

\* C14: a volume whose status is approved keeps that status and is not
\* soft-deleted by any submit, approve, reject, reopen, edit or delete
\* request of any caller.
C14_ApprovedIsTerminal ==
    [][ \A i \in DOMAIN volumes :
          volumes[i].status = "approved"
          => /\ volumes'[i].status = "approved"
             /\ volumes'[i].deleted_at = volumes[i].deleted_at
      ]_vars

C14_Witness ==
    /\ resp.op \in {"delete", "update", "reopen", "submit", "reject", "approve"}
    /\ resp.code = 400
    /\ \E i \in DOMAIN volumes :
          volumes[i].status = "approved" /\ volumes[i].deleted_at = None

\* C15: an edit by an admin or by the volume's trainer changes the volume
\* only when its status is draft or rejected; on a submitted, read or
\* approved volume it answers 400 and plans, notes and session_count, with
\* every other column, stay as they were.
C15_EditOnlyDraftOrRejected ==
    [][ resp'.op = "update" =>
        \A id \in DOMAIN volumes, u \in WorkflowUpdates :
        \A c \in {"admin", volumes[id].trainer_id} :
          UpdateVolume(c, id, u)
          => /\ volumes' # volumes => volumes[id].status \in {"draft", "rejected"}
             /\ volumes[id].status \in {"submitted", "read", "approved"}
                => /\ resp'.code = 400
                   /\ volumes'[id].plans = volumes[id].plans
                   /\ volumes'[id].notes = volumes[id].notes
                   /\ volumes'[id].session_count = volumes[id].session_count
                   /\ volumes' = volumes
             /\ ( /\ volumes[id].status \in {"draft", "rejected"}
                  /\ u.nulls \cap NotNullColumns = {} )
                => /\ resp'.code = 200
                   /\ volumes'[id] = apply_update(volumes[id], u)
      ]_vars

C15_Witness ==
    /\ resp.op = "update" /\ resp.code = 400
    /\ \E i \in DOMAIN volumes : volumes[i].status = "read"

\* C16: a delete by an admin answers 200 and sets deleted_at in every
\* status but approved; on an approved volume it answers 400 and leaves
\* deleted_at, with every other column, as it was.
C16_DeleteUnlessApproved ==
    [][ resp'.op = "delete" =>
        \A c \in Callers, id \in DOMAIN volumes :
          ( /\ has_role(c, "Admin")
            /\ DeleteVolume(c, id) )
          => IF volumes[id].status = "approved"
             THEN /\ resp'.code = 400
                  /\ volumes'[id].deleted_at = volumes[id].deleted_at
                  /\ volumes' = volumes
             ELSE /\ resp'.code = 200
                  /\ volumes'[id].deleted_at # None
                  /\ volumes'[id].status = volumes[id].status
      ]_vars

C16_Witness ==
    /\ resp.op = "delete" /\ resp.code = 400
    /\ \E i \in DOMAIN volumes :
          volumes[i].status = "approved" /\ volumes[i].deleted_at = None

\* C18: a volume that a request has just created has the status draft.
C18_CreatedAsDraft ==
    [][ \A i \in DOMAIN volumes' :
          i \notin DOMAIN volumes => volumes'[i].status = "draft"
      ]_vars

\* C26: whenever every track and delete request has completed, also after
\* requests that interleaved, the session_count of every volume is the
\* number of session_tracking rows that reference it.
C26_NoLostCountUpdate ==
    NoRequests =>
        \A i \in DOMAIN volumes :
            volumes[i].session_count = Cardinality(SessionsOf(events, i))

--------------------------------------------------------------------------
(* approve and reject statement by statement: the load of the volume with
   the checks on it, the commit of the changed attributes, and the refresh
   with the response.  Each request has its own database session, and the
   UPDATE of the commit names the row by its primary key only. *)

DecisionLocals(caller, volume_id, row, note) ==
    [ caller |-> caller, volume_id |-> volume_id, row |-> row, note |-> note ]

\* approve_session_volume: the load, the permission and status checks, and
\* the changes to the loaded object
ApproveLoad(p, caller, id, note) ==
    /\ pc[p] = "idle"
    /\ UNCHANGED <<volumes, events, next_id, qr_codes>>
    /\ IF get_volume(id) = {} THEN Finish(p, Fail("approve", 404))
       ELSE IF ~is_admin_or_customer_of(caller, volumes[id])
       THEN Finish(p, Fail("approve", 403))
       ELSE IF volumes[id].status \notin {"submitted", "read"}
       THEN Finish(p, Fail("approve", 400))
       ELSE /\ note # "" => Len(volumes[id].notes) < MaxNotes
            /\ Goto(p, "approve_commit",
                    DecisionLocals(caller, id,
                      [ volumes[id] EXCEPT
                          !.status = approve_path(@)[3],
                          !.notes = IF note # ""
                                    THEN append_note(@, "Customer Approval", note)
                                    ELSE @ ],
                      note))
            /\ UNCHANGED resp

\* db.add(volume); db.commit(): the status, and the notes when they changed
ApproveCommit(p) ==
    /\ pc[p] = "approve_commit"
    /\ volumes' = [volumes EXCEPT
         ![loc[p].volume_id].status = loc[p].row.status,
         ![loc[p].volume_id].notes = IF loc[p].note # "" THEN loc[p].row.notes ELSE @ ]
    /\ Goto(p, "approve_return", loc[p])
    /\ UNCHANGED <<events, next_id, qr_codes, resp>>

\* db.refresh(volume) and the response, whose new_status is the stored one
ApproveReturn(p) ==
    /\ pc[p] = "approve_return"
    /\ Finish(p, Response("approve", 200, volumes[loc[p].volume_id].status, 0))
    /\ UNCHANGED <<volumes, events, next_id, qr_codes>>

\* reject_session_volume: the load, the checks, and the changes to the
\* loaded object
RejectLoad(p, caller, id, note) ==
    /\ pc[p] = "idle"
    /\ UNCHANGED <<volumes, events, next_id, qr_codes>>
    /\ IF get_volume(id) = {} THEN Finish(p, Fail("reject", 404))
       ELSE IF ~is_admin_or_customer_of(caller, volumes[id])
       THEN Finish(p, Fail("reject", 403))
       ELSE IF volumes[id].status \notin {"submitted", "read"}
       THEN Finish(p, Fail("reject", 400))
       ELSE IF note = "" THEN Finish(p, Fail("reject", 400))
       ELSE /\ Len(volumes[id].notes) < MaxNotes
            /\ Goto(p, "reject_commit",
                    DecisionLocals(caller, id,
                      [ volumes[id] EXCEPT
                          !.status = reject_path(@)[3],
                          !.notes = append_note(@, "Customer Rejection", note) ],
                      note))
            /\ UNCHANGED resp

\* db.add(volume); db.commit(): the status and the notes
RejectCommit(p) ==
    /\ pc[p] = "reject_commit"
    /\ volumes' = [volumes EXCEPT
         ![loc[p].volume_id].status = loc[p].row.status,
         ![loc[p].volume_id].notes = loc[p].row.notes ]
    /\ Goto(p, "reject_return", loc[p])
    /\ UNCHANGED <<events, next_id, qr_codes, resp>>

\* db.refresh(volume) and the response
RejectReturn(p) ==
    /\ pc[p] = "reject_return"
    /\ Finish(p, Response("reject", 200, volumes[loc[p].volume_id].status, 0))
    /\ UNCHANGED <<volumes, events, next_id, qr_codes>>

DecisionCallers == {"admin", "customer1", "trainer1"}

\* one volume is created, submitted and reopened by whole requests, and
\* decided on by approve and reject requests that interleave
NextDecision ==
    \/ \E b \in WorkflowCreates :
          /\ Len(volumes) + 1 \in WorkflowVolumes
          /\ CreateVolume("trainer1", b)
    \/ \E id \in TargetIds : SubmitVolume("trainer1", id)
    \/ \E id \in TargetIds : ReopenVolume("trainer1", id)
    \/ \E p \in Procs, c \in DecisionCallers, id \in TargetIds, n \in ApprovalNotes :
          ApproveLoad(p, c, id, n)
    \/ \E p \in Procs : ApproveCommit(p)
    \/ \E p \in Procs : ApproveReturn(p)
    \/ \E p \in Procs, c \in DecisionCallers, id \in TargetIds, n \in RejectionNotes :
          RejectLoad(p, c, id, n)
    \/ \E p \in Procs : RejectCommit(p)
    \/ \E p \in Procs : RejectReturn(p)

SpecDecision == InitConc /\ [][NextDecision]_vars

--------------------------------------------------------------------------
(* Claims about workflow requests that interleave *)

\* C13: an approve request and a reject request on one volume, both started
\* while it was submitted, are never both past their commit and about to
\* answer 200.
C13_AtMostOneDecision ==
    \A p \in Procs, q \in Procs :
        ~ ( /\ pc[p] = "approve_return" /\ pc[q] = "reject_return"
            /\ loc[p].volume_id = loc[q].volume_id )

--------------------------------------------------------------------------
(* The read operations on volumes.  A result is the set of the ids of the
   rows returned; the order of a list and its skip and limit window, which
   only take rows away, are left out.  An absent filter is None, or NullDate
   for a date. *)

\* date <= date
date_le(a, b) == a[1] < b[1] \/ (a[1] = b[1] /\ a[2] <= b[2])

\* CRUDSessionVolume.get_with_relations
get_with_relations(vols, id) ==
    {i \in DOMAIN vols : i = id /\ vols[i].deleted_at = None}

\* a filtered list that also returns soft-deleted rows
get_filtered_deleted(vols, trainer_id, customer_id, status, start_period, end_period) ==
    { i \in DOMAIN vols :
        /\ trainer_id # None => vols[i].trainer_id = trainer_id
        /\ customer_id # None => vols[i].customer_id = customer_id
        /\ status # None => vols[i].status = status
        /\ start_period # NullDate => date_le(start_period, vols[i].period)
        /\ end_period # NullDate => date_le(vols[i].period, end_period) }

\* CRUDSessionVolume.get_filtered
get_filtered(vols, trainer_id, customer_id, status, start_period, end_period) ==
    { i \in DOMAIN vols :
        /\ vols[i].deleted_at = None
        /\ trainer_id # None => vols[i].trainer_id = trainer_id
        /\ customer_id # None => vols[i].customer_id = customer_id
        /\ status # None => vols[i].status = status
        /\ start_period # NullDate => date_le(start_period, vols[i].period)
        /\ end_period # NullDate => date_le(vols[i].period, end_period) }

\* CRUDSessionVolume.get_by_period
get_by_period(vols, period, trainer_id, customer_id) ==
    { i \in DOMAIN vols :
        /\ vols[i].period = period
        /\ vols[i].deleted_at = None
        /\ trainer_id # None => vols[i].trainer_id = trainer_id
        /\ customer_id # None => vols[i].customer_id = customer_id }

\* the answer of a read: a status code and the ids of the rows in the body
ReadResult(code, rows) == [code |-> code, rows |-> rows]

\* GET /session-volumes/{volume_id}
get_session_volume(vols, caller, id) ==
    IF get_with_relations(vols, id) = {} THEN ReadResult(404, {})
    ELSE IF ~ ( \/ has_role(caller, "Admin")
                \/ caller = vols[id].trainer_id
                \/ caller = vols[id].customer_id )
    THEN ReadResult(403, {})
    ELSE ReadResult(200, {id})

\* the role-based filtering of the two list handlers: the filters that
\* reach the query, or none when the caller has no role that may list
role_filter(caller, trainer_id, customer_id) ==
    IF has_role(caller, "Admin") THEN {<<trainer_id, customer_id>>}
    ELSE IF has_role(caller, "Trainer") THEN {<<caller, customer_id>>}
    ELSE IF has_role(caller, "Customer") THEN {<<trainer_id, caller>>}
    ELSE {}

\* GET /session-volumes
list_session_volumes(vols, caller, trainer_id, customer_id, status, start_period, end_period) ==
    IF role_filter(caller, trainer_id, customer_id) = {} THEN ReadResult(403, {})
    ELSE LET f == CHOOSE x \in role_filter(caller, trainer_id, customer_id) : TRUE
         IN  ReadResult(200, get_filtered(vols, f[1], f[2], status,
                                          start_period, end_period))

\* GET /session-volumes/period/{year}/{month}, within one year
get_volumes_by_period(vols, caller, month, trainer_id, customer_id) ==
    IF ~ (1 <= month /\ month <= 12) THEN ReadResult(400, {})
    ELSE IF role_filter(caller, trainer_id, customer_id) = {} THEN ReadResult(403, {})
    ELSE LET f == CHOOSE x \in role_filter(caller, trainer_id, customer_id) : TRUE
         IN  ReadResult(200, get_by_period(vols, <<month, 1>>, f[1], f[2]))

\* the callers and filters of the read requests
ReadCallers == {"admin", "trainer1", "customer1"}

TrainerFilters == {None, "trainer1"}

CustomerFilters == {None, "customer1"}

StatusFilters == {None, "draft"}

PeriodFilters == {NullDate, <<1, 1>>}

ReadMonths == {1, 2, 13}

--------------------------------------------------------------------------
(* Claims about the read operations *)

\* C17: a soft-deleted volume is returned by no read: the get by id answers
\* 404, the filtered list and the list by period leave it out for every
\* caller and filter, and the lookup of get_or_create_for_period does not
\* find it under its own key.
C17_DeletedNotRead ==
    \A i \in DOMAIN volumes :
      volumes[i].deleted_at # None =>
        /\ \A c \in ReadCallers :
              get_session_volume(volumes, c, i) = ReadResult(404, {})
        /\ \A c \in ReadCallers, t \in TrainerFilters, cu \in CustomerFilters,
              st \in StatusFilters, a \in PeriodFilters, b \in PeriodFilters :
              i \notin list_session_volumes(volumes, c, t, cu, st, a, b).rows
        /\ \A c \in ReadCallers, m \in ReadMonths, t \in TrainerFilters,
              cu \in CustomerFilters :
              i \notin get_volumes_by_period(volumes, c, m, t, cu).rows
        /\ i \notin volumes_for_period(volumes, volumes[i].trainer_id,
                                       volumes[i].customer_id, volumes[i].period)

\* a key was free after the soft delete and has a new volume, which is read
C17_Witness ==
    \E i \in DOMAIN volumes, j \in DOMAIN volumes :
        /\ volumes[i].deleted_at # None /\ volumes[j].deleted_at = None
        /\ volumes[i].trainer_id = volumes[j].trainer_id
        /\ volumes[i].customer_id = volumes[j].customer_id
        /\ volumes[i].period = volumes[j].period
        /\ list_session_volumes(volumes, "trainer1", None, None, None,
                                NullDate, NullDate).rows = {j}

--------------------------------------------------------------------------
(* The access policy: every active user addresses the one volume of
   trainer1 and customer1, in each of its statuses *)

AccessCreates == { CreateBody("trainer1", "customer1", <<1, 1>>, 0, "draft") }

AccessUpdates == { UpdateBody({"plans"}, {}, NullDate, 0, "plan", <<>>, None) }

AccessApprovalNotes == {""}

AccessRejectionNotes == {"needs adjustment"}

NextAccess ==
    \/ \E b \in AccessCreates :
          /\ Len(volumes) + 1 \in WorkflowVolumes
          /\ CreateVolume("trainer1", b)
    \/ \E c \in Callers, id \in TargetIds, u \in AccessUpdates : UpdateVolume(c, id, u)
    \/ \E c \in Callers, id \in TargetIds : DeleteVolume(c, id)
    \/ \E c \in Callers, id \in TargetIds : SubmitVolume(c, id)
    \/ \E c \in Callers, id \in TargetIds, n \in AccessApprovalNotes :
          ApproveVolume(c, id, n)
    \/ \E c \in Callers, id \in TargetIds, n \in AccessRejectionNotes :
          RejectVolume(c, id, n)
    \/ \E c \in Callers, id \in TargetIds : ReopenVolume(c, id)

SpecAccess == Init /\ [][NextAccess]_vars

--------------------------------------------------------------------------
(* Claims about the access policy *)

\* the policy of the specification: who may do what on a volume
PolicyAllows(op, caller, row) ==
    CASE op = "read" ->
           role_name(caller) = "Admin" \/ caller = row.trainer_id
           \/ caller = row.customer_id
      [] op \in {"submit", "reopen", "update"} ->
           role_name(caller) = "Admin" \/ caller = row.trainer_id
      [] op \in {"approve", "reject"} ->
           role_name(caller) = "Admin" \/ caller = row.customer_id
      [] op = "delete" -> role_name(caller) = "Admin"

\* a request answered 403 iff the policy denies it, and then with no change
Policed(op, caller, row) ==
    /\ resp'.code = 403 <=> ~PolicyAllows(op, caller, row)
    /\ resp'.code = 403 => volumes' = volumes

--------------------------------------------------------------------------
(* Requests that fail part way: the store fails at the next statement of a
   handler, or the worker dies.  Each CRUD method has committed its own
   write by then, and get_db only closes the session, so what was committed
   stays. *)

\* the request of p ends with an error after the statements it has run
Crash(p) ==
    /\ pc[p] # "idle"
    /\ Finish(p, Fail("crash", 500))
    /\ UNCHANGED <<volumes, events, next_id, qr_codes>>

\* requests run one at a time, statement by statement
CrashProcs == {1}

NextCrash ==
    \/ \E p \in CrashProcs, c \in ConcTrainers, t \in ConcTokens, d \in Dates :
          TrackBegin(p, c, t, d)
    \/ \E p \in CrashProcs : TrackLookup(p)
    \/ \E p \in CrashProcs : TrackCreateVolume(p)
    \/ \E p \in CrashProcs : TrackCreateSession(p)
    \/ \E p \in CrashProcs : TrackReadCount(p)
    \/ \E p \in CrashProcs : TrackWriteCount(p)
    \/ \E p \in CrashProcs, id \in SessionIds : DeleteBegin(p, "admin", id)
    \/ \E p \in CrashProcs : DeleteReadCount(p)
    \/ \E p \in CrashProcs : DeleteWriteCount(p)
    \/ \E p \in CrashProcs : DeleteRemove(p)
    \/ \E p \in CrashProcs : Crash(p)

SpecCrash == InitConc /\ [][NextCrash]_vars

--------------------------------------------------------------------------
(* Claims about requests that fail part way *)

\* C21: when a track request fails after its session_tracking row was
\* inserted and before the count was written, the row is not in the store
\* afterwards; when a delete request fails between the decrement of the
\* count and the removal of the row, the decrement is not in the store
\* afterwards.
C21_FailedRequestLeavesNothing ==
    [][ \A p \in CrashProcs :
          Crash(p) =>
            /\ pc[p] \in {"track_read_count", "track_write_count"}
               => get_session(events', loc[p].session_id) = {}
            /\ (pc[p] = "delete_remove" /\ loc[p].expired)
               => volumes'[loc[p].volume_id].session_count = loc[p].count
      ]_vars

--------------------------------------------------------------------------
(* Scans by two trainers, of whom one is the trainer on file of customer1 *)

\* customers.trainer_id: the trainer on file of a customer, or None
assigned_trainer(u) ==
    CASE u = "customer1" -> "trainer1"
      [] u = "customer3" -> "trainer2"
      [] OTHER -> None

\* the message of TrackSessionResponse
track_message(caller, customer_id) == "Session recorded"

MismatchTrainers == {"trainer1", "trainer2"}

NextMismatch ==
    \/ \E c \in MismatchTrainers, t \in Tokens, d \in Dates : TrackSession(c, t, d)
    \/ \E id \in SessionIds : DeleteSession("admin", id)

SpecMismatch == Init /\ [][NextMismatch]_vars

\* C22: a track request that answers 200 carries a mismatch warning iff the
\* customer has a trainer on file who is not the caller.
C22_MismatchWarning ==
    [][ (resp'.op = "track" /\ resp'.code = 200) =>
        \A c \in MismatchTrainers, q \in qr_codes, d \in Dates :
          TrackSession(c, q.token, d)
          => ( track_message(c, q.user_id) = "Warning"
                 <=> assigned_trainer(q.user_id) \notin {None, c} )
      ]_vars

--------------------------------------------------------------------------
(* The QR codes: GET /qr-codes/me and POST /qr-codes/generate, statement by
   statement.  No handler updates or deletes a row of qr_codes. *)

\* the strings secrets.choice may produce
TokenPool == {"tok1", "tok2", "tok4"}

\* a lookup that finds no row
get_by_user_nothing(qrs, user_id) == {}

\* CRUDQRCode.get_by_user
get_by_user(qrs, user_id) == {q \in qrs : q.user_id = user_id}

\* the id of a new row
new_qr_id(qrs) ==
    1 + (CHOOSE m \in {q.id : q \in qrs} \cup {0} : \A q \in qrs : q.id <= m)

\* a registry whose only unique column is the token
violates_unique_token(qrs, row) == \E q \in qrs : q.token = row.token

\* the unique constraints of qr_codes: user_id and token
violates_unique(qrs, row) ==
    \E q \in qrs : q.user_id = row.user_id \/ q.token = row.token

IssueLocals(user_id, token) == [user_id |-> user_id, token |-> token]

\* get_my_qr_code: the handler's get_by_user
IssueBegin(p, user) ==
    /\ pc[p] = "idle"
    /\ is_active(user)
    /\ UNCHANGED <<volumes, events, next_id, qr_codes, resp>>
    /\ IF get_by_user(qr_codes, user) # {}
       THEN \E q \in get_by_user(qr_codes, user) :
              Goto(p, "issue_return", IssueLocals(user, q.token))
       ELSE Goto(p, "issue_create", IssueLocals(user, ""))

\* generate_qr_code_for_user: require_admin, the user by email, and the
\* handler's get_by_user
GenerateBegin(p, caller, user) ==
    /\ pc[p] = "idle"
    /\ UNCHANGED <<volumes, events, next_id, qr_codes>>
    /\ IF ~require_admin(caller) THEN Finish(p, Fail("issue", 403))
       ELSE IF user \notin Users THEN Finish(p, Fail("issue", 404))
       ELSE /\ UNCHANGED resp
            /\ IF get_by_user(qr_codes, user) # {}
               THEN \E q \in get_by_user(qr_codes, user) :
                      Goto(p, "issue_return", IssueLocals(user, q.token))
               ELSE Goto(p, "issue_create", IssueLocals(user, ""))

\* create_for_user: its own get_by_user
IssueCreate(p) ==
    /\ pc[p] = "issue_create"
    /\ UNCHANGED <<volumes, events, next_id, qr_codes, resp>>
    /\ IF get_by_user(qr_codes, loc[p].user_id) # {}
       THEN \E q \in get_by_user(qr_codes, loc[p].user_id) :
              Goto(p, "issue_return", [loc[p] EXCEPT !.token = q.token])
       ELSE Goto(p, "issue_generate", loc[p])

\* generate_unique_token: the loop ends with a token no row has
IssueGenerate(p) ==
    /\ pc[p] = "issue_generate"
    /\ UNCHANGED <<volumes, events, next_id, qr_codes, resp>>
    /\ \E t \in TokenPool :
          /\ get_by_token(t) = {}
          /\ Goto(p, "issue_insert", [loc[p] EXCEPT !.token = t])

\* db.add(qr_code); db.commit(): the INSERT, which the unique constraints
\* may refuse (IntegrityError, answered 500)
IssueInsert(p) ==
    /\ pc[p] = "issue_insert"
    /\ UNCHANGED <<volumes, events, next_id>>
    /\ LET row == [id |-> new_qr_id(qr_codes), user_id |-> loc[p].user_id,
                   token |-> loc[p].token]
       IN  IF violates_unique(qr_codes, row)
           THEN /\ Finish(p, Fail("issue", 500))
                /\ UNCHANGED qr_codes
           ELSE /\ qr_codes' = qr_codes \cup {row}
                /\ Goto(p, "issue_return", loc[p])
                /\ UNCHANGED resp

\* the response, with the token of the row
IssueReturn(p) ==
    /\ pc[p] = "issue_return"
    /\ Finish(p, Response("issue", 200, "", 0))
    /\ UNCHANGED <<volumes, events, next_id, qr_codes>>

\* the users who ask for their code, and the emails the admin names
IssueUsers == {"trainer1", "customer1", "customer2"}

GenerateUsers == {"customer1", "customer2", "nobody"}

NextTokens ==
    \/ \E p \in Procs, u \in IssueUsers : IssueBegin(p, u)
    \/ \E p \in Procs, c \in {"admin", "trainer1"}, u \in GenerateUsers :
          GenerateBegin(p, c, u)
    \/ \E p \in Procs : IssueCreate(p)
    \/ \E p \in Procs : IssueGenerate(p)
    \/ \E p \in Procs : IssueInsert(p)
    \/ \E p \in Procs : IssueReturn(p)

SpecTokens == InitConc /\ [][NextTokens]_vars

--------------------------------------------------------------------------
(* Claims about the QR codes *)

\* C23: in every reachable state, also when two requests for one user
\* interleave, no two rows of qr_codes share a token and no user has more
\* than one row.
C23_TokenRegistry ==
    \A q1 \in qr_codes, q2 \in qr_codes :
        (q1.token = q2.token \/ q1.user_id = q2.user_id) => q1 = q2

\* two requests for one user interleaved: one inserted, the other was
\* refused by the unique constraint
C23_Witness ==
    /\ resp.op = "issue" /\ resp.code = 500
    /\ \E q \in qr_codes : q.user_id = "customer2"

\* C24: a row of qr_codes is never changed or removed, so its token keeps
\* resolving to its user; and a request for a user who has a row goes
\* straight to the response with the token of that row and writes nothing.
C24_IssueIsIdempotent ==
    [][ /\ \A q \in qr_codes :
             {r \in qr_codes' : r.token = q.token} = {q}
        /\ \A p \in Procs, u \in IssueUsers, q \in qr_codes :
             (q.user_id = u /\ IssueBegin(p, u))
             => /\ pc'[p] = "issue_return"
                /\ loc'[p].token = q.token
                /\ qr_codes' = qr_codes
        /\ \A p \in Procs, u \in GenerateUsers, q \in qr_codes :
             (q.user_id = u /\ GenerateBegin(p, "admin", u))
             => /\ pc'[p] = "issue_return"
                /\ loc'[p].token = q.token
                /\ qr_codes' = qr_codes
        /\ \A p \in Procs :
             IssueReturn(p)
             => /\ resp'.code = 200
                /\ \E q \in qr_codes' :
                      q.user_id = loc[p].user_id /\ q.token = loc[p].token
      ]_vars

\* a request for customer1, who has a row from the start, is about to
\* answer with the token of that row, and the registry has grown meanwhile
C24_Witness ==
    /\ \E p \in Procs :
          pc[p] = "issue_return" /\ loc[p] = IssueLocals("customer1", "tok1")
    /\ qr_codes # InitQRCodes
    /\ \E q \in qr_codes : q.user_id = "customer1" /\ q.token = "tok1"

--------------------------------------------------------------------------
(* Scans and removals that meet a volume the customer has approved: requests
   run one after another *)

\* the trainer scans and submits, the customer approves, the trainer or the
\* admin removes a scan
NextApproved ==
    \/ \E d \in Dates : TrackSession("trainer1", "tok1", d)
    \/ \E c \in {"admin", "trainer1"}, id \in SessionIds : DeleteSession(c, id)
    \/ \E id \in AllVolumeIds : SubmitVolume("trainer1", id)
    \/ \E id \in AllVolumeIds, n \in ApprovalNotes : ApproveVolume("customer1", id, n)
    \/ \E id \in AllVolumeIds, u \in VolumesUpdates : UpdateVolume("trainer1", id, u)

SpecApproved == Init /\ [][NextApproved]_vars

\* C27: no step changes the session_count, the plans or the period of a
\* volume whose status is approved.
C27_ApprovedIsFinal ==
    [][ \A i \in DOMAIN volumes :
          volumes[i].status = "approved" =>
            /\ volumes'[i].session_count = volumes[i].session_count
            /\ volumes'[i].plans = volumes[i].plans
            /\ volumes'[i].period = volumes[i].period
      ]_vars

--------------------------------------------------------------------------
(* Requests addressed to a soft-deleted volume *)

\* C28: an edit, a second delete, a submit, an approve, a reject or a reopen
\* addressed to a volume whose deleted_at is set does not answer 200 and
\* leaves the row as it was.
C28_DeletedIsInert ==
    [][ \A id \in TargetIds :
          (id \in DOMAIN volumes /\ volumes[id].deleted_at # None) =>
            \A c \in Callers :
              ( \/ \E u \in WorkflowUpdates : UpdateVolume(c, id, u)
                \/ DeleteVolume(c, id)
                \/ SubmitVolume(c, id)
                \/ \E n \in ApprovalNotes : ApproveVolume(c, id, n)
                \/ \E n \in RejectionNotes : RejectVolume(c, id, n)
                \/ ReopenVolume(c, id) )
              => (resp'.code # 200 /\ volumes'[id] = volumes[id])
      ]_vars

--------------------------------------------------------------------------
(* The session_tracking rows against the volumes they reference *)

\* C29: every session_tracking row references a volume that is not deleted,
\* whose trainer is the row's trainer, whose customer owns the row's QR code
\* and whose period is the first day of the month of the row's session_date.
C29_EventMatchesVolume ==
    \A e \in events :
        /\ e.session_volume_id \in DOMAIN volumes
        /\ LET v == volumes[e.session_volume_id]
           IN  /\ v.deleted_at = None
               /\ v.trainer_id = e.trainer_id
               /\ \E q \in qr_codes : q.id = e.qr_code_id /\ q.user_id = v.customer_id
               /\ v.period = replace_day1(e.session_date)

--------------------------------------------------------------------------
(* Scans and removals statement by statement, with volumes created and
   edited between their statements *)

\* POST /session-volumes/ served while other requests are under way
CreateVolumeStep(caller, body) ==
    /\ UNCHANGED <<events, next_id, qr_codes, pc, loc>>
    /\ IF ~require_trainer_or_admin(caller)
       THEN resp' = Fail("create", 403) /\ UNCHANGED volumes
       ELSE IF body.session_count < 0
       THEN resp' = Fail("create", 422) /\ UNCHANGED volumes
       ELSE
         LET data == IF has_role(caller, "Trainer") /\ ~has_role(caller, "Admin")
                     THEN [body EXCEPT !.trainer_id = caller] ELSE body
         IN  IF \/ ~is_active(data.trainer_id) \/ ~has_role(data.trainer_id, "Trainer")
                \/ ~is_active(data.customer_id) \/ ~has_role(data.customer_id, "Customer")
             THEN resp' = Fail("create", 400) /\ UNCHANGED volumes
             ELSE IF volumes_for_period(volumes, data.trainer_id, data.customer_id,
                                        data.period) # {}
             THEN resp' = Fail("create", 409) /\ UNCHANGED volumes
             ELSE /\ Len(volumes) < MaxVolumes
                  /\ volumes' = create_volume(volumes, volume_row(data))
                  /\ resp' = Response("create", 200, data.status, 0)

\* the edit without the validator of session_count
UpdateVolumeStepUnvalidated(caller, id, upd) ==
    /\ UNCHANGED <<events, next_id, qr_codes, pc, loc>>
    /\ IF get_volume(id) = {}
       THEN resp' = Fail("update", 404) /\ UNCHANGED volumes
       ELSE IF ~is_admin_or_trainer_of(caller, volumes[id])
       THEN resp' = Fail("update", 403) /\ UNCHANGED volumes
       ELSE IF volumes[id].status \in {"submitted", "read", "approved"}
       THEN resp' = Fail("update", 400) /\ UNCHANGED volumes
       ELSE IF upd.nulls \cap NotNullColumns # {}
       THEN resp' = Fail("update", 500) /\ UNCHANGED volumes
       ELSE /\ volumes' = [volumes EXCEPT ![id] = apply_update(@, upd)]
            /\ resp' = Response("update", 200, volumes'[id].status, 0)

\* PUT /session-volumes/{volume_id} served while other requests are under way
UpdateVolumeStep(caller, id, upd) ==
    /\ UNCHANGED <<events, next_id, qr_codes, pc, loc>>
    /\ IF "session_count" \in upd.set \ upd.nulls /\ upd.session_count < 0
       THEN resp' = Fail("update", 422) /\ UNCHANGED volumes
       ELSE IF get_volume(id) = {}
       THEN resp' = Fail("update", 404) /\ UNCHANGED volumes
       ELSE IF ~is_admin_or_trainer_of(caller, volumes[id])
       THEN resp' = Fail("update", 403) /\ UNCHANGED volumes
       ELSE IF volumes[id].status \in {"submitted", "read", "approved"}
       THEN resp' = Fail("update", 400) /\ UNCHANGED volumes
       ELSE IF upd.nulls \cap NotNullColumns # {}
       THEN resp' = Fail("update", 500) /\ UNCHANGED volumes
       ELSE /\ volumes' = [volumes EXCEPT ![id] = apply_update(@, upd)]
            /\ resp' = Response("update", 200, volumes'[id].status, 0)

\* the dates scanned: the days of one month
CountDates == { d \in Dates : d[1] = 1 }

\* SessionVolumeCreate bodies with a negative count, no count, a count
CountCreates ==
    { CreateBody("trainer1", "customer1", <<1, 1>>, n, "draft") : n \in {-1, 0, MaxCount} }

\* SessionVolumeUpdate bodies that carry a session_count
CountUpdates ==
    { UpdateBody({"session_count"}, {}, NullDate, n, None, <<>>, None) : n \in {-1, 0} }

NextCounts ==
    \/ \E p \in Procs, d \in CountDates : TrackBegin(p, "trainer1", "tok1", d)
    \/ \E p \in Procs : TrackLookup(p)
    \/ \E p \in Procs : TrackCreateVolume(p)
    \/ \E p \in Procs : TrackCreateSession(p)
    \/ \E p \in Procs : TrackReadCount(p)
    \/ \E p \in Procs : TrackWriteCount(p)
    \/ \E p \in Procs, id \in SessionIds : DeleteBegin(p, "admin", id)
    \/ \E p \in Procs : DeleteReadCount(p)
    \/ \E p \in Procs : DeleteWriteCount(p)
    \/ \E p \in Procs : DeleteRemove(p)
    \/ \E b \in CountCreates : CreateVolumeStep("trainer1", b)
    \/ \E id \in AllVolumeIds, u \in CountUpdates : UpdateVolumeStep("trainer1", id, u)

SpecCounts == InitConc /\ [][NextCounts]_vars

\* C30: in every state reached by interleaved scans, removals, creations and
\* edits, the session_count of every volume is at least 0.
C30_CountNeverNegative ==
    \A i \in DOMAIN volumes : volumes[i].session_count >= 0

\* a removal that found the count at 0 and skipped the decrement, while the
\* other request is under way and a negative count has just been refused
C30_Witness ==
    /\ resp.code = 422
    /\ \E p \in Procs :
          /\ pc[p] = "delete_remove"
          /\ ~loc[p].expired
          /\ loc[p].count = 0
          /\ volumes[loc[p].volume_id].session_count = 0
          /\ \E q \in Procs \ {p} : pc[q] # "idle"

====
